---- MODULE Spec2Model ----
(***************************************************************************)
(* A model of the byte-keyed trie of libgenerics (src/src/trie.c).         *)
(*                                                                         *)
(* The heap is the function `nodes`: a node is named by the sequence of    *)
(* child-array indices that leads to it from the root (<<>> is the root,   *)
(* which is embedded in struct trie_t).  A child slot holds NULL, a        *)
(* pointer to the node one index further, or whatever malloc left there    *)
(* ("uninit").  A value slot holds NULL, an owned buffer, or a pointer to  *)
(* a buffer that was already freed.                                        *)
(*                                                                         *)
(* Undefined behaviour is a choice: an indeterminate pointer reads as NULL *)
(* or as a stray non-NULL pointer; dereferencing NULL or a stray pointer,  *)
(* and freeing a buffer twice, end the run in a state with fault set.      *)
(***************************************************************************)
EXTENDS Integers, Sequences, FiniteSets, TLC

\* ------------------------------------------------------------------ bounds
MaxKeyLen == 2
MaxVal == 2
MaxAdds == 2
MaxRemoves == 2

\* The key bytes exercised: one 7-bit byte and one byte with the top bit set.
ByteSample == {97, 200}

\* The widths given to trie_create.
MemberSizes == {0, 1}

\* ------------------------------------------------------- program constants
NBYTE == 256

\* trie_t.size is a size_t: its arithmetic is modulo SizeMod.  The model keeps
\* the low 16 bits; the counters it reaches stay far below that.
SizeMod == 2 ^ 16

\* gerror_t
GERROR_OK == "GERROR_OK"
GERROR_NULL_STRUCTURE == "GERROR_NULL_STRUCTURE"
GERROR_ACCESS_OUT_OF_BOUND == "GERROR_ACCESS_OUT_OF_BOUND"

\* ------------------------------------------------------------------ inputs
\* a NULL `string`: no byte sequence (-1 is no byte)
NullString == <<-1>>
Keys == UNION {[1..n -> ByteSample] : n \in 0..MaxKeyLen}
\* (string, size) argument pairs: a buffer of exactly `size` bytes, or a NULL
\* string with any size.
StringArgs ==
    {[string |-> k, size |-> Len(k)] : k \in Keys}
        \cup {[string |-> NullString, size |-> n] : n \in 0..1}
Vals == 1..MaxVal
\* an element buffer of member_size bytes
Elems(ms) == [1..ms -> Vals]

\* ------------------------------------------------------------------- state
VARIABLES
    size,           \* trie_t.size
    member_size,    \* trie_t.member_size
    nodes,          \* the root and every node malloc'ed and not freed
    char_signed,    \* whether plain char is signed in this build
    fault,          \* "none", or the undefined behaviour the run ended in
    call,           \* the last call: its arguments, result and output buffer
    added,          \* history: the keys add returned GERROR_OK for since create
    mapped,         \* history: key -> element, as add, set and remove should leave it
    nAdds,          \* history: adds that returned GERROR_OK since create
    nRemoves,       \* history: removes that returned GERROR_OK since create
    live            \* history: created and not destroyed since

vars == <<size, member_size, nodes, char_signed, fault, call,
          added, mapped, nAdds, nRemoves, live>>

\* child-array indices the model follows: the sampled bytes, the indices a
\* signed char turns them into, and the key positions (the init loop's `i`).
InArray(s) == s >= 0 /\ s < NBYTE
SignedChar(b) == IF b >= 128 THEN b - 256 ELSE b
Slots == ByteSample \cup {SignedChar(b) : b \in ByteSample} \cup 0..(MaxKeyLen - 1)

NullValue == [st |-> "null", data |-> <<>>]
Buffer(d) == [st |-> "buf", data |-> d]
FreedValue == [st |-> "freed", data |-> <<>>]

NullTrie == "NULL"
Handles == {"t", NullTrie}

\* ------------------------------------------------------------- traversal
\* (int)ptr[i] with ptr a char* (trie.c:35,38)
AllocIndex(b) == IF char_signed THEN SignedChar(b) ELSE b

\* (unsigned char)ptr[i] (trie.c:69)
LookupIndex(b) == b

\* The node malloc'ed at key position i, after lines 41-45: the loop over j
\* stores NULL in children[i] each time round.
NewNode(i) ==
    [value |-> NullValue,
     children |-> [s \in Slots |-> IF s = i THEN "null" ELSE "uninit"]]

TraversalResult(h, kind, node) == [heap |-> h, kind |-> kind, node |-> node]

\* The loop of trie_get_node_or_allocate from position i at `node`: the set of
\* ways it can end.  kind is "node" (a node was returned), "wild" (a stray
\* pointer was returned) or "fault" (a stray pointer was dereferenced).
RECURSIVE AllocWalk(_, _, _, _, _)
AllocWalk(h, node, string, sz, i) ==
    IF i >= sz THEN {TraversalResult(h, "node", node)}
    ELSE LET byte == AllocIndex(string[i + 1])
             child == Append(node, byte)
             slot == h[node].children[byte]
             allocated == [h EXCEPT ![node].children[byte] = "node"]
                              @@ (child :> NewNode(i))
             stray == IF i + 1 >= sz THEN TraversalResult(h, "wild", <<>>)
                                     ELSE TraversalResult(h, "fault", <<>>)
         IN  CASE slot = "node" -> AllocWalk(h, child, string, sz, i + 1)
               [] slot = "null" -> AllocWalk(allocated, child, string, sz, i + 1)
               [] slot = "uninit" ->
                    AllocWalk(allocated, child, string, sz, i + 1) \cup {stray}

\* as trie_get_node_or_allocate, but a NULL string of length zero is let through
trie_get_node_or_allocate_null_ok(t, string, sz) ==
    IF t = NullTrie \/ (string = NullString /\ sz > 0)
    THEN {TraversalResult(nodes, "null", <<>>)}
    ELSE AllocWalk(nodes, <<>>, string, sz, 0)

trie_get_node_or_allocate(t, string, sz) ==
    IF t = NullTrie \/ string = NullString
    THEN {TraversalResult(nodes, "null", <<>>)}
    ELSE AllocWalk(nodes, <<>>, string, sz, 0)

\* The loop of node_at; kind "null" is the NULL return.
RECURSIVE LookupWalk(_, _, _, _)
LookupWalk(node, string, sz, i) ==
    IF i >= sz THEN {TraversalResult(nodes, "node", node)}
    ELSE LET byte == LookupIndex(string[i + 1])
             slot == nodes[node].children[byte]
             stray == IF i + 1 >= sz THEN TraversalResult(nodes, "wild", <<>>)
                                     ELSE TraversalResult(nodes, "fault", <<>>)
         IN  CASE slot = "node" -> LookupWalk(Append(node, byte), string, sz, i + 1)
               [] slot = "null" -> {TraversalResult(nodes, "null", <<>>)}
               [] slot = "uninit" -> {TraversalResult(nodes, "null", <<>>), stray}

node_at(t, string, sz) ==
    IF t = NullTrie \/ string = NullString
    THEN {TraversalResult(nodes, "null", <<>>)}
    ELSE LookupWalk(<<>>, string, sz, 0)

\* ------------------------------------------------------------ operations
\* What a call leaves behind: the fields of *t, the heap, the fault it ended
\* in (then it never returned: res is "none"), its result and what it wrote
\* into the caller's output buffer ("untouched" when it wrote nothing).
\* allocs counts the value buffers the call obtained from malloc.
Outcome(sz, ms, h, f, res, out) ==
    [size |-> sz, member_size |-> ms, nodes |-> h, fault |-> f,
     res |-> res, out |-> out, allocs |-> 0]

\* the caller's output buffer when nothing was copied into it
Untouched == <<-1>>

Returns(sz, ms, h, res) == Outcome(sz, ms, h, "none", res, Untouched)
Faults(h, f) == Outcome(size, member_size, h, f, "none", Untouched)
NoChange(res) == Returns(size, member_size, nodes, res)

\* The nodes still linked from the root: what a freed or overwritten link led
\* to is no longer part of the heap the trie can reach.
Linked(h) ==
    LET kept == {p \in DOMAIN h :
                    \A j \in 1..Len(p) :
                        /\ SubSeq(p, 1, j - 1) \in DOMAIN h
                        /\ h[SubSeq(p, 1, j - 1)].children[p[j]] = "node"}
    IN  [p \in kept |-> h[p]]

\* The root's child array after the loops of trie.c:95-96 and 134-137: the
\* 256 slots hold NULL; what lies outside the array is not the trie's memory,
\* and by the next lifetime of the trie its content is indeterminate again.
RootChildren == [s \in Slots |-> IF InArray(s) THEN "null" ELSE "uninit"]

\* trie.c:86-99
trie_create(t, ms) ==
    IF t = NullTrie THEN {NoChange(GERROR_NULL_STRUCTURE)}
    ELSE LET root == [value |-> NullValue,
                      children |-> RootChildren]
         IN  {Returns(0, ms, Linked([nodes EXCEPT ![<<>>] = root]), GERROR_OK)}

\* trie.c:105-117, called on root.children[i] for every i: whether some
\* pointer it reads below the root is indeterminate.
trie_destroy_tnode_reads_uninit ==
    \E p \in DOMAIN nodes :
        /\ p # <<>>
        /\ \A j \in 1..Len(p) : InArray(p[j])
        /\ \E s \in Slots : InArray(s) /\ nodes[p].children[s] = "uninit"

\* trie.c:125-142
trie_destroy(t) ==
    IF t = NullTrie THEN {NoChange(GERROR_NULL_STRUCTURE)}
    ELSE IF nodes[<<>>].value.st = "freed" THEN {Faults(nodes, "double_free")}
    ELSE LET value == IF nodes[<<>>].value.st = "buf" THEN FreedValue
                      ELSE nodes[<<>>].value
             root == [value |-> value,
                      children |-> RootChildren]
             done == Returns(0, 0, Linked([nodes EXCEPT ![<<>>] = root]), GERROR_OK)
         IN  {done} \cup (IF trie_destroy_tnode_reads_uninit
                          THEN {Faults(nodes, "stray_pointer")} ELSE {})

\* malloc(member_size) at trie.c:158: malloc(0) returns NULL or a pointer.
Malloc(ms) == IF ms = 0 THEN {NullValue, Buffer(<<>>)} ELSE {Buffer(<<>>)}

\* an add that counts a key only when it stores into a node without value
trie_add_element_counts_new_only(t, string, sz, elem) ==
    IF t = NullTrie THEN {NoChange(GERROR_NULL_STRUCTURE)}
    ELSE UNION {
        IF o.kind = "null" THEN {Faults(o.heap, "null_node")}
        ELSE IF o.kind # "node" THEN {Faults(o.heap, "stray_pointer")}
        ELSE LET old == o.heap[o.node].value
                 held == IF old.st = "null" THEN Malloc(member_size) ELSE {old}
                 got(v) == IF old.st = "null" /\ v.st = "buf" THEN 1 ELSE 0
                 count == IF old.st = "null" THEN (size + 1) % SizeMod ELSE size
             IN  {IF member_size # 0 /\ string # NullString
                  THEN IF v.st = "buf"
                       THEN [Returns(count, member_size,
                                [o.heap EXCEPT ![o.node].value =
                                    Buffer(SubSeq(elem, 1, member_size))],
                                GERROR_OK) EXCEPT !.allocs = got(v)]
                       ELSE Faults(o.heap, "use_after_free")
                  ELSE [Returns(count, member_size,
                           [o.heap EXCEPT ![o.node].value = v], GERROR_OK)
                            EXCEPT !.allocs = got(v)]
                  : v \in held}
        : o \in trie_get_node_or_allocate(t, string, sz)}

\* trie.c:152-165
trie_add_element(t, string, sz, elem) ==
    IF t = NullTrie THEN {NoChange(GERROR_NULL_STRUCTURE)}
    ELSE UNION {
        IF o.kind = "null" THEN {Faults(o.heap, "null_node")}
        ELSE IF o.kind # "node" THEN {Faults(o.heap, "stray_pointer")}
        ELSE LET old == o.heap[o.node].value
                 held == IF old.st = "null" THEN Malloc(member_size) ELSE {old}
                 got(v) == IF old.st = "null" /\ v.st = "buf" THEN 1 ELSE 0
             IN  {IF member_size # 0 /\ string # NullString
                  THEN IF v.st = "buf"
                       THEN [Returns((size + 1) % SizeMod, member_size,
                                [o.heap EXCEPT ![o.node].value =
                                    Buffer(SubSeq(elem, 1, member_size))],
                                GERROR_OK) EXCEPT !.allocs = got(v)]
                       ELSE Faults(o.heap, "use_after_free")
                  ELSE [Returns((size + 1) % SizeMod, member_size,
                           [o.heap EXCEPT ![o.node].value = v], GERROR_OK)
                            EXCEPT !.allocs = got(v)]
                  : v \in held}
        : o \in trie_get_node_or_allocate(t, string, sz)}

\* trie.c:178-194
trie_remove_element(t, string, sz) ==
    IF t = NullTrie THEN {NoChange(GERROR_NULL_STRUCTURE)}
    ELSE {
        IF o.kind = "null" THEN NoChange(GERROR_ACCESS_OUT_OF_BOUND)
        ELSE IF o.kind # "node" THEN Faults(nodes, "stray_pointer")
        ELSE IF nodes[o.node].value.st = "freed" THEN Faults(nodes, "double_free")
        ELSE Returns((size - 1) % SizeMod, member_size,
                 [nodes EXCEPT ![o.node].value = NullValue], GERROR_OK)
        : o \in node_at(t, string, sz)}

\* trie.c:208-221
trie_get_element(t, string, sz) ==
    IF t = NullTrie THEN {NoChange(GERROR_NULL_STRUCTURE)}
    ELSE {
        IF o.kind = "null" THEN NoChange(GERROR_ACCESS_OUT_OF_BOUND)
        ELSE IF o.kind = "fault" THEN Faults(nodes, "stray_pointer")
        ELSE IF member_size = 0 THEN NoChange(GERROR_OK)
        ELSE IF o.kind = "wild" THEN Faults(nodes, "stray_pointer")
        ELSE IF nodes[o.node].value.st = "null" THEN Faults(nodes, "null_value")
        ELSE IF nodes[o.node].value.st = "freed" THEN Faults(nodes, "use_after_free")
        ELSE Outcome(size, member_size, nodes, "none", GERROR_OK,
                 SubSeq(nodes[o.node].value.data, 1, member_size))
        : o \in node_at(t, string, sz)}

\* a set that stores into a fresh buffer when the node has no value
trie_set_element_allocates(t, string, sz, elem) ==
    IF t = NullTrie THEN {NoChange(GERROR_NULL_STRUCTURE)}
    ELSE {
        IF o.kind = "null" THEN NoChange(GERROR_OK)
        ELSE IF o.kind = "fault" THEN Faults(nodes, "stray_pointer")
        ELSE IF member_size = 0 THEN NoChange(GERROR_OK)
        ELSE IF o.kind = "wild" THEN Faults(nodes, "stray_pointer")
        ELSE IF nodes[o.node].value.st = "freed" THEN Faults(nodes, "use_after_free")
        ELSE Returns(size, member_size,
                 [nodes EXCEPT ![o.node].value =
                     Buffer(SubSeq(elem, 1, member_size))],
                 GERROR_OK)
        : o \in node_at(t, string, sz)}

\* trie.c:231-244
trie_set_element(t, string, sz, elem) ==
    IF t = NullTrie THEN {NoChange(GERROR_NULL_STRUCTURE)}
    ELSE {
        IF o.kind = "null" THEN NoChange(GERROR_OK)
        ELSE IF o.kind = "fault" THEN Faults(nodes, "stray_pointer")
        ELSE IF member_size = 0 THEN NoChange(GERROR_OK)
        ELSE IF o.kind = "wild" THEN Faults(nodes, "stray_pointer")
        ELSE IF nodes[o.node].value.st = "null" THEN Faults(nodes, "null_value")
        ELSE IF nodes[o.node].value.st = "freed" THEN Faults(nodes, "use_after_free")
        ELSE Returns(size, member_size,
                 [nodes EXCEPT ![o.node].value =
                     Buffer(SubSeq(elem, 1, member_size))],
                 GERROR_OK)
        : o \in node_at(t, string, sz)}

\* ----------------------------------------------------------------- actions
Call(op, t, a, elem, o) ==
    [op |-> op, t |-> t, string |-> a.string, size |-> a.size, elem |-> elem,
     res |-> o.res, out |-> o.out, allocs |-> o.allocs]

Effect(op, t, a, elem, o) ==
    /\ size' = o.size
    /\ member_size' = o.member_size
    /\ nodes' = o.nodes
    /\ fault' = o.fault
    /\ call' = Call(op, t, a, elem, o)
    /\ UNCHANGED char_signed

\* With a NULL handle no other argument is read.
NoArg == [string |-> NullString, size |-> 0]
ArgsFor(t) == IF t = NullTrie THEN {NoArg} ELSE StringArgs

EmptyMap == [k \in {} |-> <<>>]
Without(m, k) == [x \in DOMAIN m \ {k} |-> m[x]]
With(m, k, v) == [x \in DOMAIN m \cup {k} |-> IF x = k THEN v ELSE m[x]]

Init ==
    /\ char_signed \in BOOLEAN
    /\ member_size \in MemberSizes
    /\ size = 0
    /\ nodes = (<<>> :> [value |-> NullValue, children |-> RootChildren])
    /\ fault = "none"
    /\ call = Call("create", "t", NoArg, <<>>, NoChange(GERROR_OK))
    /\ added = {}
    /\ mapped = EmptyMap
    /\ nAdds = 0
    /\ nRemoves = 0
    /\ live = TRUE

Create ==
    /\ fault = "none"
    /\ \E t \in Handles, ms \in MemberSizes :
         \E o \in trie_create(t, ms) :
            /\ Effect("create", t, NoArg, <<>>, o)
            /\ IF o.res = GERROR_OK
               THEN /\ added' = {} /\ mapped' = EmptyMap
                    /\ nAdds' = 0 /\ nRemoves' = 0 /\ live' = TRUE
               ELSE UNCHANGED <<added, mapped, nAdds, nRemoves, live>>

Destroy ==
    /\ fault = "none"
    /\ \E t \in Handles :
         \E o \in trie_destroy(t) :
            /\ Effect("destroy", t, NoArg, <<>>, o)
            /\ IF o.res = GERROR_OK
               THEN /\ added' = {} /\ mapped' = EmptyMap
                    /\ nAdds' = 0 /\ nRemoves' = 0 /\ live' = FALSE
               ELSE UNCHANGED <<added, mapped, nAdds, nRemoves, live>>

Add ==
    /\ fault = "none"
    /\ nAdds < MaxAdds
    /\ \E t \in Handles :
         \E a \in ArgsFor(t), elem \in Elems(member_size) :
            \E o \in trie_add_element(t, a.string, a.size, elem) :
               /\ Effect("add", t, a, elem, o)
               /\ IF o.res = GERROR_OK
                  THEN /\ added' = added \cup {a.string}
                       /\ mapped' = With(mapped, a.string, elem)
                       /\ nAdds' = nAdds + 1
                       /\ UNCHANGED <<nRemoves, live>>
                  ELSE UNCHANGED <<added, mapped, nAdds, nRemoves, live>>

Remove ==
    /\ fault = "none"
    /\ nRemoves < MaxRemoves
    /\ \E t \in Handles :
         \E a \in ArgsFor(t) :
            \E o \in trie_remove_element(t, a.string, a.size) :
               /\ Effect("remove", t, a, <<>>, o)
               /\ IF o.res = GERROR_OK
                  THEN /\ mapped' = Without(mapped, a.string)
                       /\ nRemoves' = nRemoves + 1
                       /\ UNCHANGED <<added, nAdds, live>>
                  ELSE UNCHANGED <<added, mapped, nAdds, nRemoves, live>>

Get ==
    /\ fault = "none"
    /\ \E t \in Handles :
         \E a \in ArgsFor(t) :
            \E o \in trie_get_element(t, a.string, a.size) :
               /\ Effect("get", t, a, <<>>, o)
               /\ UNCHANGED <<added, mapped, nAdds, nRemoves, live>>

Set ==
    /\ fault = "none"
    /\ \E t \in Handles :
         \E a \in ArgsFor(t), elem \in Elems(member_size) :
            \E o \in trie_set_element(t, a.string, a.size, elem) :
               /\ Effect("set", t, a, elem, o)
               /\ mapped' = IF o.res = GERROR_OK /\ a.string \in DOMAIN mapped
                            THEN With(mapped, a.string, elem) ELSE mapped
               /\ UNCHANGED <<added, nAdds, nRemoves, live>>

Next == Create \/ Destroy \/ Add \/ Remove \/ Get \/ Set

Spec == Init /\ [][Next]_vars

\* ------------------------------------------------------------ well-formedness
\* A slot holds a node pointer exactly when the node it names is in the heap.
HeapShape ==
    /\ <<>> \in DOMAIN nodes
    /\ \A p \in DOMAIN nodes : \A s \in Slots :
          (nodes[p].children[s] = "node") <=> (Append(p, s) \in DOMAIN nodes)
    /\ \A p \in DOMAIN nodes : Len(p) <= MaxKeyLen

\* ------------------------------------------------------------------ claims
OnTrie(c, op) == c.op = op /\ c.t # NullTrie
SameKey(c, d) == c.string = d.string /\ c.size = d.size
\* the first member_size bytes of two buffers agree
ByteEqual(out, elem) == \A i \in 1..member_size : out[i] = elem[i]

\* C1: add(K, V) immediately followed by get(K) returns GERROR_OK and the
\* output buffer byte-equals V, for every key K (bytes >= 128 and the
\* zero-length key included) and every value V.
C1_AddThenGet ==
    [][(live /\ OnTrie(call, "add") /\ call.res = GERROR_OK
            /\ OnTrie(call', "get") /\ SameKey(call', call))
        => (call'.res = GERROR_OK /\ ByteEqual(call'.out, call.elem))]_vars

\* C2: get(K) of a key K that was never added (a proper prefix of an added
\* key included) returns GERROR_ACCESS_OUT_OF_BOUND and leaves size unchanged.
C2_GetNeverAdded ==
    [][(OnTrie(call', "get") /\ call'.string \notin added)
        => (call'.res = GERROR_ACCESS_OUT_OF_BOUND /\ size' = size)]_vars

\* C3: remove(K) after add(K, V) returns GERROR_OK, and a get(K) after that
\* remove, with no add of K in between, returns GERROR_ACCESS_OUT_OF_BOUND.
C3_RemoveThenGet ==
    [][/\ (OnTrie(call', "remove") /\ call'.string \in DOMAIN mapped)
          => call'.res = GERROR_OK
       /\ (OnTrie(call', "get") /\ call'.string \in added \ DOMAIN mapped)
          => call'.res = GERROR_ACCESS_OUT_OF_BOUND]_vars

\* the nodes, root included, whose value is present
ValuePresent == {p \in DOMAIN nodes : nodes[p].value.st = "buf"}

\* C4: size equals the number of nodes (root included) whose value is present.
C4_SizeCountsValues ==
    (live /\ fault = "none") => size = Cardinality(ValuePresent)

\* since create, every add was of a new key and nothing was removed
DistinctAddsOnly == live /\ nAdds = Cardinality(added) /\ nRemoves = 0

\* C5: from a freshly created trie, after N adds on N pairwise distinct keys
\* size equals N, and after then removing one of those keys size equals N-1.
C5_SizeAfterDistinctAdds ==
    [][/\ (fault' = "none" /\ DistinctAddsOnly') => size' = nAdds'
       /\ (DistinctAddsOnly /\ OnTrie(call', "remove") /\ call'.string \in added)
          => size' = nAdds - 1]_vars

IsProperPrefix(k1, k2) == Len(k1) < Len(k2) /\ SubSeq(k2, 1, Len(k1)) = k1
\* k and some other added key are prefixes of one another
OnPrefixChain(k) ==
    \E k2 \in added : IsProperPrefix(k, k2) \/ IsProperPrefix(k2, k)

\* C6: of keys that are prefixes of one another, get of each mapped key
\* returns GERROR_OK with its own value, also after another of them was
\* removed.
C6_PrefixKeysIndependent ==
    [][(OnTrie(call', "get") /\ call'.string \in DOMAIN mapped
            /\ OnPrefixChain(call'.string))
        => (call'.res = GERROR_OK
            /\ ByteEqual(call'.out, mapped[call'.string]))]_vars

\* C7: no operation reads or writes through an absent node or an absent
\* value buffer.
C7_NoAbsentDereference == fault \notin {"null_node", "null_value"}

\* C8: every free of a value buffer leaves the owning slot absent: no slot
\* references a freed buffer and no buffer is freed twice.
C8_NoDanglingValue ==
    /\ \A p \in DOMAIN nodes : nodes[p].value.st # "freed"
    /\ fault # "double_free"

\* the node sequence node_at follows for `string` is in the heap
PathExists(string) ==
    /\ string # NullString
    /\ [i \in 1..Len(string) |-> LookupIndex(string[i])] \in DOMAIN nodes

\* C9: get, remove and set of a key whose path does not exist return
\* GERROR_ACCESS_OUT_OF_BOUND and leave nodes, values and size unchanged.
C9_MissingPathIsOutOfBound ==
    [][(call'.op \in {"get", "remove", "set"} /\ call'.t # NullTrie
            /\ ~PathExists(call'.string))
        => (/\ call'.res = GERROR_ACCESS_OUT_OF_BOUND
            /\ nodes' = nodes /\ size' = size
            /\ member_size' = member_size)]_vars

\* what both traversal routines return for a zero-length key: the root, or
\* NULL when `string` is NULL
ZeroLengthResult(string) ==
    IF string = NullString THEN TraversalResult(nodes, "null", <<>>)
    ELSE TraversalResult(nodes, "node", <<>>)

AllocPath(k) == [i \in 1..Len(k) |-> AllocIndex(k[i])]
LookupPath(k) == [i \in 1..Len(k) |-> LookupIndex(k[i])]

\* the nodes trie_destroy reaches: those linked through slots of the
\* children arrays only
DestroyReaches == {p \in DOMAIN nodes : \A j \in 1..Len(p) : InArray(p[j])}

\* C11: destroy, from any reachable state, frees every node and every value
\* buffer allocated since create exactly once and leaks nothing, leaves all
\* root child slots absent, size = 0 and member_size = 0; a create that
\* follows yields an empty trie.
C11_DestroyFreesAll ==
    [][/\ OnTrie(call', "destroy") =>
            /\ fault' = "none"
            /\ DOMAIN nodes \subseteq DestroyReaches
            /\ DOMAIN nodes' = {<<>>}
            /\ \A s \in Slots : InArray(s) => nodes'[<<>>].children[s] = "null"
            /\ size' = 0 /\ member_size' = 0
       /\ (OnTrie(call, "destroy") /\ OnTrie(call', "create")) =>
            /\ DOMAIN nodes' = {<<>>} /\ nodes'[<<>>].value = NullValue
            /\ size' = 0
            /\ \A k \in Keys : Len(k) > 0 => ~PathExists(k)']_vars

\* C12: with member_size = 0 the trie is an existence set: get(K) returns
\* GERROR_OK exactly when K is mapped (added and not since removed), and the
\* value of K's node is present exactly when K is mapped.
C12_ExistenceSet ==
    [][(live' /\ member_size' = 0 /\ fault' = "none") =>
          /\ OnTrie(call', "get") /\ call'.string # NullString =>
                (call'.res = GERROR_OK <=> call'.string \in DOMAIN mapped)
          /\ \A k \in Keys :
                k \in DOMAIN mapped' <=>
                    /\ LookupPath(k) \in DOMAIN nodes'
                    /\ nodes'[LookupPath(k)].value.st = "buf"]_vars

\* two keys of equal length that differ in exactly one byte position
DifferInOneByte(k1, k2) ==
    /\ Len(k1) = Len(k2)
    /\ Cardinality({i \in 1..Len(k1) : k1[i] # k2[i]}) = 1

\* C13: two keys of equal length that differ in exactly one byte position
\* resolve to different terminal nodes in both traversal routines, and once
\* both are mapped get of either returns GERROR_OK with its own value.
C13_OneByteApart ==
    [][\A k1, k2 \in Keys :
          DifferInOneByte(k1, k2) =>
              /\ AllocPath(k1) # AllocPath(k2)
              /\ LookupPath(k1) # LookupPath(k2)
              /\ ( /\ live /\ OnTrie(call', "get") /\ call'.string = k1
                   /\ k1 \in DOMAIN mapped /\ k2 \in DOMAIN mapped )
                 => /\ call'.res = GERROR_OK
                    /\ ByteEqual(call'.out, mapped[k1])]_vars

\* C14: every node allocated by trie_get_node_or_allocate has its value
\* absent and every slot of its children array absent (none left
\* uninitialised) before the traversal descends into it, at any depth.
C14_NewNodeInitialised ==
    /\ \A p \in DOMAIN nodes : \A s \in Slots :
           InArray(s) => nodes[p].children[s] # "uninit"
    /\ \A i \in 0..(MaxKeyLen - 1) :
           /\ NewNode(i).value = NullValue
           /\ \A s \in Slots : InArray(s) => NewNode(i).children[s] = "null"

\* C15: both traversal routines index the children array with the key byte
\* read as unsigned: every index is in 0..NBYTE-1, and for every byte value
\* trie_get_node_or_allocate and node_at select the same slot.
C15_UnsignedIndex ==
    \A b \in ByteSample :
        /\ InArray(AllocIndex(b)) /\ InArray(LookupIndex(b))
        /\ AllocIndex(b) = LookupIndex(b)

\* the value a heap holds at path p; a node that does not exist holds none
ValueAt(h, p) == IF p \in DOMAIN h THEN h[p].value ELSE NullValue
\* the value pointer is non-NULL
Present(v) == v.st # "null"

IsPrefix(k1, k2) == k1 = k2 \/ IsProperPrefix(k1, k2)

\* C17: between create and destroy a node exists on the path of a non-empty
\* byte sequence K (the root, the node of the empty sequence, exists from
\* create on) exactly when a key with prefix K has been added since create;
\* remove, get and set neither create nor delete a node.
C17_NodesArePrefixesOfAdded ==
    [][/\ (live' /\ fault' = "none") =>
            \A k \in Keys :
                Len(k) > 0 =>
                    (PathExists(k)' <=> \E k2 \in added' : IsPrefix(k, k2))
       /\ call'.op \in {"remove", "get", "set"} =>
            DOMAIN nodes' = DOMAIN nodes]_vars

\* C18: every add that returns GERROR_OK increments size by one; when the
\* node of the key already holds a value the add allocates no second buffer,
\* stores V in the buffer the node has and changes nothing else.
C18_AddOverwrites ==
    [][(OnTrie(call', "add") /\ call'.res = GERROR_OK) =>
          /\ size' = (size + 1) % SizeMod
          /\ LET p == AllocPath(call'.string)
             IN  (p \in DOMAIN nodes /\ nodes[p].value.st = "buf") =>
                    /\ call'.allocs = 0
                    /\ nodes' = [nodes EXCEPT ![p].value =
                                    Buffer(SubSeq(call'.elem, 1, member_size))]]_vars

\* C18 witness: the same key was added twice; the second add allocated
\* nothing, the node holds the value of the second add, and size is 2.
C18_Witness ==
    /\ live /\ OnTrie(call, "add") /\ call.res = GERROR_OK
    /\ member_size = 1 /\ nAdds = 2 /\ Cardinality(added) = 1
    /\ call.allocs = 0 /\ size = 2
    /\ Cardinality(ValuePresent) = 1
    /\ \A p \in ValuePresent : nodes[p].value = Buffer(call.elem)

\* C19: size is non-negative in every reachable state: it never goes below
\* zero and never wraps around, whatever is removed; so it stays equal to
\* the adds minus the removes that returned GERROR_OK since create, and
\* no more removes than adds succeed.
C19_SizeNonNegative ==
    fault = "none" => (nRemoves <= nAdds /\ size = nAdds - nRemoves)

====
